---- MODULE Spec2Model ----
(***************************************************************************)
(* A model of pyDALAnvilWorks:                                             *)
(*   - _anvil_designer/generate_class.py : the form-YAML to class-source   *)
(*     generator (scalar normalizer, catalog builder, code emitter);       *)
(*   - anvil/users.py : the force_login / logout / get_user session shim;  *)
(*   - anvil/component.py : the Component event-handler registry.          *)
(*                                                                         *)
(* Texts are sequences of one-character strings, so that the conversions   *)
(* of the generator (str.title, quoting, float formatting) are computed    *)
(* character by character.                                                 *)
(***************************************************************************)
EXTENDS Integers, Sequences, FiniteSets, TLC

VARIABLES
    float_grammar,      \* which decimal grammar the installed strictyaml Float validator accepts
    scalar, text_pc,    \* validate_text: the scalar under normalization, and the call's position
    llc_value, llc_parent, llc_card, llc_pc,                 \* lowest_level_component on one component
    parsed, form_name, out_catalog, class_string, gen_pc,   \* yaml2definition
    table_defined, logged_in_users, env_pid, env_test, last_call,   \* anvil.users
    events, trace, last_event_call                 \* anvil.Component

textVars  == <<scalar, text_pc>>
cardVars  == <<llc_value, llc_parent, llc_card, llc_pc>>
genVars   == <<parsed, form_name, out_catalog, class_string, gen_pc>>
userVars  == <<table_defined, logged_in_users, env_pid, env_test, last_call>>
eventVars == <<events, trace, last_event_call>>
vars == <<float_grammar, textVars, cardVars, genVars, userVars, eventVars>>
notUsers  == <<float_grammar, textVars, cardVars, genVars, eventVars>>
notEvents == <<float_grammar, textVars, cardVars, genVars, userVars>>

(***************************************************************************)
(* Characters and texts                                                    *)
(***************************************************************************)
LOWER == <<"a","b","c","d","e","f","g","h","i","j","k","l","m",
           "n","o","p","q","r","s","t","u","v","w","x","y","z">>
UPPER == <<"A","B","C","D","E","F","G","H","I","J","K","L","M",
           "N","O","P","Q","R","S","T","U","V","W","X","Y","Z">>
DIGITS == {"0","1","2","3","4","5","6","7","8","9"}

Range(s) == {s[i] : i \in DOMAIN s}

IsLower(c) == \E i \in DOMAIN LOWER : LOWER[i] = c
IsUpper(c) == \E i \in DOMAIN UPPER : UPPER[i] = c
IsCased(c) == IsLower(c) \/ IsUpper(c)
ToUpper(c) == IF IsLower(c) THEN UPPER[CHOOSE i \in DOMAIN LOWER : LOWER[i] = c] ELSE c
ToLower(c) == IF IsUpper(c) THEN LOWER[CHOOSE i \in DOMAIN UPPER : UPPER[i] = c] ELSE c

\* The literals of the generator, spelled out.
T_true      == <<"t","r","u","e">>
T_false     == <<"f","a","l","s","e">>
T_null      == <<"n","u","l","l">>
PY_True     == <<"T","r","u","e">>
PY_False    == <<"F","a","l","s","e">>
PY_None     == <<"N","o","n","e">>
CONTAINER_EXPR == <<"C","o","n","t","a","i","n","e","r","(",")">>
TOP_LEVEL_NAME == <<"c","o","n","t","a","i","n","e","r">>
TEMPLATE_SUFFIX == <<"T","e","m","p","l","a","t","e">>
QUOTE == "'"

RECURSIVE Flatten(_)
Flatten(ss) == IF ss = <<>> THEN <<>> ELSE Head(ss) \o Flatten(Tail(ss))

\* str.split(sep): the list of maximal pieces between separators (never empty).
RECURSIVE SplitOn(_, _)
SplitOn(s, sep) ==
    IF \A i \in DOMAIN s : s[i] # sep
    THEN <<s>>
    ELSE LET k == CHOOSE i \in DOMAIN s : s[i] = sep /\ \A j \in 1..(i-1) : s[j] # sep
         IN  <<SubSeq(s, 1, k - 1)>> \o SplitOn(SubSeq(s, k + 1, Len(s)), sep)

\* str.title(): a cased character is upper-cased when it follows an uncased
\* character (or starts the text) and lower-cased when it follows a cased one.
Title(s) ==
    [i \in DOMAIN s |->
        IF IsCased(s[i])
        THEN IF i > 1 /\ IsCased(s[i-1]) THEN ToLower(s[i]) ELSE ToUpper(s[i])
        ELSE s[i]]

\* The segments joined as they are, without title-casing them.
to_camel_case_untitled(snake_str) == Flatten(SplitOn(snake_str, "_"))

to_camel_case(snake_str) ==
    LET components == SplitOn(snake_str, "_")
    IN  Flatten([i \in DOMAIN components |-> Title(components[i])])

(***************************************************************************)
(* Scalar normalizer                                                       *)
(***************************************************************************)
Count(s, c) == Cardinality({i \in DOMAIN s : s[i] = c})
DigitCount(s) == Cardinality({i \in DOMAIN s : s[i] \in DIGITS})

\* strictyaml's Float validator, which revalidate(sy.Float()) runs on the
\* text: it raises unless the text is a decimal literal.  Every release
\* accepts digits with an optional inner ".", and none accepts a text with
\* two dots or with no digit; releases differ on a leading or trailing dot
\* ("1.", ".5"), which float_grammar decides.
FloatAccepts(t) ==
    /\ Count(t, ".") <= 1
    /\ DigitCount(t) >= 1
    /\ \/ float_grammar = "lenient"
       \/ Len(t) >= 1 /\ t[1] # "." /\ t[Len(t)] # "."

\* A scalar of the document: its text, the type it validates as, and
\* whether the last revalidation raised.
RawScalar(t) == [text |-> t, kind |-> "str"]

\* The character-set test tried before the empty-text test.
validate_text_digits_first(value) ==
    LET t == value.text IN
    IF t \in {T_true, T_false} THEN [value EXCEPT !.kind = "bool"]
    ELSE IF t \in {T_null} THEN [value EXCEPT !.kind = "null"]
    ELSE IF Range(t) \subseteq (DIGITS \cup {"."})
         THEN IF FloatAccepts(t) THEN [value EXCEPT !.kind = "float"]
              ELSE [value EXCEPT !.kind = "raise"]
    ELSE value

validate_text(value) ==
    LET t == value.text IN
    IF t \in {T_true, T_false} THEN [value EXCEPT !.kind = "bool"]
    ELSE IF t \in {T_null} THEN [value EXCEPT !.kind = "null"]
    ELSE IF t \in {<<>>} THEN [value EXCEPT !.kind = "str"]
    ELSE IF Range(t) \subseteq (DIGITS \cup {"."})
         THEN IF FloatAccepts(t) THEN [value EXCEPT !.kind = "float"]
              ELSE [value EXCEPT !.kind = "raise"]
    ELSE value

(***************************************************************************)
(* Python values and ordered dictionaries                                  *)
(***************************************************************************)
RECURSIVE StripLeft(_, _)
StripLeft(s, c) == IF s # <<>> /\ Head(s) = c THEN StripLeft(Tail(s), c) ELSE s
RECURSIVE StripRight(_, _)
StripRight(s, c) ==
    IF s # <<>> /\ s[Len(s)] = c THEN StripRight(SubSeq(s, 1, Len(s) - 1), c) ELSE s

\* str(float(text)) for a decimal literal in positional notation:
\* "20" -> "20.0", "1.50" -> "1.5", ".5" -> "0.5", "1." -> "1.0".
FloatRepr(t) ==
    LET parts == SplitOn(t, ".")
        ip == StripLeft(parts[1], "0")
        fp == IF Len(parts) > 1 THEN StripRight(parts[2], "0") ELSE <<>>
    IN  (IF ip = <<>> THEN <<"0">> ELSE ip) \o <<".">> \o (IF fp = <<>> THEN <<"0">> ELSE fp)

\* str(value) of the Python datum of a normalized scalar (YAML.data).
PyStr(value) ==
    CASE value.kind = "bool"  -> IF value.text = T_true THEN PY_True ELSE PY_False
      [] value.kind = "null"  -> PY_None
      [] value.kind = "float" -> FloatRepr(value.text)
      [] OTHER                -> value.text

\* d[key] = item on an insertion-ordered dict (a sequence of [key, item]):
\* an existing key keeps its position, a new key goes last.
DictHas(d, key) == \E i \in DOMAIN d : d[i].key = key
DictIndex(d, key) == CHOOSE i \in DOMAIN d : d[i].key = key
DictGet(d, key) == d[DictIndex(d, key)].item
\* A plain list append: an existing key gets a second entry.
DictAppend(d, key, item) == Append(d, [key |-> key, item |-> item])
\* setdefault: an existing key keeps its item.
DictKeepFirst(d, key, item) ==
    IF DictHas(d, key) THEN d ELSE Append(d, [key |-> key, item |-> item])
DictSet(d, key, item) ==
    IF DictHas(d, key)
    THEN [d EXCEPT ![DictIndex(d, key)].item = item]
    ELSE Append(d, [key |-> key, item |-> item])
DictKeys(d) == [i \in DOMAIN d |-> d[i].key]

(***************************************************************************)
(* Catalog builder                                                         *)
(* A mapping node is a record: keys is the set of keys present, and the    *)
(* field of an absent key holds a fixed filler that is never read.         *)
(* properties is the ordered list of [key, item] pairs of the mapping,     *)
(* each item a scalar; components is the list of child nodes.              *)
(***************************************************************************)
Has(value, key) == key \in value.keys

\* validate_yaml(value, 'properties') on a non-empty mapping of scalars:
\* every scalar is normalized in place, in key order.
validate_yaml(properties) ==
    [i \in DOMAIN properties |->
        [key |-> properties[i].key, item |-> validate_text(properties[i].item)]]

Raises(properties) == \E i \in DOMAIN properties : properties[i].item.kind = "raise"

RECURSIVE UpdateAll(_, _)
UpdateAll(attrs, pairs) ==
    IF pairs = <<>> THEN attrs
    ELSE UpdateAll(DictSet(attrs, Head(pairs).key, Head(pairs).item), Tail(pairs))

PARENT_ATTR == [text |-> CONTAINER_EXPR, kind |-> "str"]

WithParent(normalized) ==
    IF Raises(normalized) THEN [ok |-> FALSE, attrs |-> <<>>]
    ELSE [ok |-> TRUE, attrs |-> DictSet(UpdateAll(<<>>, normalized), "parent", PARENT_ATTR)]

add_properties(value, parent) ==
    IF ~Has(value, "properties") \/ Len(value.properties) = 0
    THEN [ok |-> TRUE, attrs |-> <<>>]
    ELSE WithParent(validate_yaml(value.properties))

\* One line "    $key = $value,\n" of the keyword block, as its two fields.
KwargsLine(key, value) == [key |-> key, value |-> value]

\* Every value but parent's quoted, whatever its type.
dict2string_quote_all(dict_name, of_dict) ==
    [i \in DOMAIN of_dict |->
        KwargsLine(of_dict[i].key,
                   IF of_dict[i].key # "parent"
                   THEN <<QUOTE>> \o PyStr(of_dict[i].item) \o <<QUOTE>>
                   ELSE PyStr(of_dict[i].item))]

dict2string(dict_name, of_dict) ==
    [i \in DOMAIN of_dict |->
        KwargsLine(of_dict[i].key,
                   IF of_dict[i].item.kind = "str" /\ of_dict[i].key # "parent"
                   THEN <<QUOTE>> \o PyStr(of_dict[i].item) \o <<QUOTE>>
                   ELSE PyStr(of_dict[i].item))]

CatalogCard(name, of_type, parent, as_string) ==
    [name |-> name, of_type |-> of_type, parent |-> parent, as_string |-> as_string]

NoCard == CatalogCard(<<>>, "", <<>>, <<>>)

\* A missing type read as an empty default instead of raising.
lowest_level_component_default_type(value, parent) ==
    LET Build(attrs) ==
            IF ~attrs.ok THEN [ok |-> FALSE, card |-> NoCard]
            ELSE [ok |-> TRUE,
                  card |-> CatalogCard(to_camel_case(value.name),
                                       IF Has(value, "type") THEN value.type ELSE "",
                                       parent, dict2string(value.name, attrs.attrs))]
    IN  IF ~Has(value, "name")
        THEN [ok |-> FALSE, card |-> NoCard]
        ELSE Build(add_properties(value, parent))

lowest_level_component(value, parent) ==
    LET Build(attrs) ==
            IF ~attrs.ok THEN [ok |-> FALSE, card |-> NoCard]
            ELSE [ok |-> TRUE,
                  card |-> CatalogCard(to_camel_case(value.name), value.type, parent,
                                       dict2string(value.name, attrs.attrs))]
    IN  IF ~Has(value, "name") \/ ~Has(value, "type")
        THEN [ok |-> FALSE, card |-> NoCard]
        ELSE Build(add_properties(value, parent))

Failed == [ok |-> FALSE, catalog |-> <<>>]

\* derive_dict mutates the catalog it is given; here it returns the catalog
\* it leaves, or Failed when an exception escapes it.
RECURSIVE derive_dict(_, _, _)
RECURSIVE derive_components(_, _, _)
derive_components(components, catalog, parent) ==
    LET Rest(first) ==
            IF ~first.ok THEN Failed
            ELSE derive_components(Tail(components), first.catalog, parent)
    IN  IF components = <<>> THEN [ok |-> TRUE, catalog |-> catalog]
        ELSE Rest(derive_dict(Head(components), catalog, parent))

\* A traversal that records a component before it descends into it.
derive_dict_preorder(value, catalog, parent) ==
    LET top_level == ~Has(value, "name")
        name == IF top_level THEN parent ELSE value.name
        parent1 == IF Has(value, "components") THEN name ELSE parent
        value1 == IF top_level
                  THEN [value.container EXCEPT !.keys = @ \cup {"name"},
                                               !.name = TOP_LEVEL_NAME]
                  ELSE value
        Below(entry) ==
            IF ~entry.ok THEN Failed
            ELSE IF Has(value, "components")
            THEN derive_components(value.components,
                                   DictSet(catalog, name, entry.card), parent1)
            ELSE [ok |-> TRUE, catalog |-> DictSet(catalog, name, entry.card)]
    IN  IF top_level /\ ~Has(value, "container") THEN Failed
        ELSE Below(lowest_level_component(value1, parent1))

derive_dict(value, catalog, parent) ==
    LET top_level == ~Has(value, "name")
        name == IF top_level THEN parent ELSE value.name
        parent1 == IF Has(value, "components") THEN name ELSE parent
        value1 == IF top_level
                  THEN [value.container EXCEPT !.keys = @ \cup {"name"},
                                               !.name = TOP_LEVEL_NAME]
                  ELSE value
        Store(below, entry) ==
            IF ~entry.ok THEN Failed
            ELSE [ok |-> TRUE, catalog |-> DictSet(below.catalog, name, entry.card)]
        Own(below) ==
            IF ~below.ok THEN Failed
            ELSE IF top_level /\ ~Has(value, "container") THEN Failed
            ELSE Store(below, lowest_level_component(value1, parent1))
    IN  Own(IF Has(value, "components")
            THEN derive_components(value.components, catalog, parent1)
            ELSE [ok |-> TRUE, catalog |-> catalog])

(***************************************************************************)
(* Code emitter                                                            *)
(***************************************************************************)
\* "{item.name} = dict(\n{item.as_string})\n"
DefaultDecl(ident, block) == [ident |-> ident, block |-> block]
\* "    {key} = {item.of_type}(**{item.name})\n"
AttrLine(key, of_type, arg) == [key |-> key, of_type |-> of_type, arg |-> arg]

\* The loop's "if key == form_name: continue".
Emitted(catalog, form) == SelectSeq(catalog, LAMBDA e : e.key # form)

NoText == [default_string |-> <<>>, class_name |-> <<>>, base |-> "", attr_string |-> <<>>]

yaml2definition(doc, form) ==
    LET Render(catalog, items) ==
            [default_string |->
                 [i \in DOMAIN items |->
                     DefaultDecl(items[i].item.name, items[i].item.as_string)],
             class_name |-> form \o TEMPLATE_SUFFIX,
             base |-> DictGet(catalog, form).of_type,
             attr_string |->
                 [i \in DOMAIN items |->
                     AttrLine(items[i].key, items[i].item.of_type, items[i].item.name)]]
        Emit(derived) ==
            IF ~derived.ok \/ ~DictHas(derived.catalog, form)
            THEN [ok |-> FALSE, catalog |-> <<>>, text |-> NoText]
            ELSE [ok |-> TRUE, catalog |-> derived.catalog,
                  text |-> Render(derived.catalog, Emitted(derived.catalog, form))]
    IN  Emit(derive_dict(doc, <<>>, form))

(***************************************************************************)
(* Inputs                                                                  *)
(***************************************************************************)
MaxTextLen == 3
MaxProps == 2
MaxNodes == 3

N_label_1 == <<"l","a","b","e","l","_","1">>
N_label1  == <<"l","a","b","e","l","1">>
N_Main    == <<"M","a","i","n">>
N_F1      == <<"F","1">>
ComponentNames == {N_label_1, N_label1, N_Main}
FormNames == {N_Main, N_F1}
ComponentTypes == {"Label", "ColumnPanel"}

T_Hi == <<"H","i">>
TextAlphabet == {"1", "0", ".", "a"}
RECURSIVE TextsOfLen(_)
TextsOfLen(n) ==
    IF n = 0 THEN {<<>>}
    ELSE {Append(t, c) : t \in TextsOfLen(n - 1), c \in TextAlphabet}
ScalarTexts ==
    UNION {TextsOfLen(n) : n \in 0..MaxTextLen}
        \cup {T_true, T_false, T_null, PY_True, <<"n","u","l">>, T_Hi,
              <<"1",".","2",".","3">>, <<"1",".","5","0">>}

\* An optional key of a mapping: present with a value, or absent.
Absent(filler) == [has |-> FALSE, v |-> filler]
Present(v) == [has |-> TRUE, v |-> v]
KeyIf(opt, key) == IF opt.has THEN {key} ELSE {}

MkNode(name, type, properties, components) ==
    [keys |-> {"name"} \cup KeyIf(type, "type") \cup KeyIf(properties, "properties")
                  \cup (IF components # <<>> THEN {"components"} ELSE {}),
     name |-> name, type |-> type.v, properties |-> properties.v,
     components |-> components]

MkContainer(type, properties) ==
    [keys |-> KeyIf(type, "type") \cup KeyIf(properties, "properties"),
     name |-> <<>>, type |-> type.v, properties |-> properties.v, components |-> <<>>]

MkRoot(container, components) ==
    [keys |-> KeyIf(container, "container")
                  \cup (IF components # <<>> THEN {"components"} ELSE {}),
     container |-> container.v, components |-> components]

TypeOptions == {Absent("")} \cup {Present(t) : t \in ComponentTypes}

\* Property mappings: keys are distinct (a YAML mapping), items are scalars
\* as the dirty load leaves them (plain strings).
PropertyKeys == {"text", "visible", "parent"}
PropertyTexts == {T_Hi, T_true, T_null, <<>>, <<"1",".","5">>, <<"2","0">>,
                  <<"1",".">>, <<"1",".","2",".","3">>}
RECURSIVE Mappings(_)
Mappings(n) ==
    IF n = 0 THEN {<<>>}
    ELSE {Append(m, [key |-> k, item |-> RawScalar(t)]) :
            m \in {x \in Mappings(n - 1) : Len(x) = n - 1},
            k \in PropertyKeys, t \in PropertyTexts}
         \cup Mappings(n - 1)
DistinctKeys(m) == \A i, j \in DOMAIN m : m[i].key = m[j].key => i = j
PropertyMaps == {m \in Mappings(MaxProps) : DistinctKeys(m)}
RichPropertyOptions == {Absent(<<>>)} \cup {Present(m) : m \in PropertyMaps}

\* The shapes a component takes in a whole document: a Label with or
\* without its text, a ColumnPanel, and a component that lacks its type.
T_text == [key |-> "text", item |-> RawScalar(T_Hi)]
Shell(name, type, properties) == [name |-> name, type |-> type, properties |-> properties]
TypedShells ==
    {Shell(nm, Present(ty), Absent(<<>>)) : nm \in ComponentNames, ty \in ComponentTypes}
FullShells ==
    TypedShells
        \cup {Shell(nm, Present("Label"), Present(<<T_text>>)) : nm \in ComponentNames}
        \cup {Shell(nm, Absent(""), Absent(<<>>)) : nm \in ComponentNames}

\* Component forests of exactly n nodes, siblings in document order.
RECURSIVE Forests(_, _)
Forests(n, shells) ==
    IF n = 0 THEN {<<>>}
    ELSE UNION {
           {<<MkNode(sh.name, sh.type, sh.properties, below)>> \o rest :
                sh \in shells, below \in Forests(k - 1, shells),
                rest \in Forests(n - k, shells)}
           : k \in 1..n}

\* Documents of fewer than MaxNodes components take every shape; those of
\* MaxNodes components are fully typed and carry no properties.
ComponentLists ==
    UNION {Forests(n, FullShells) : n \in 0..(MaxNodes - 1)}
        \cup Forests(MaxNodes, TypedShells)

ContainerOptions ==
    {Present(MkContainer(ty, Absent(<<>>))) :
        ty \in {Absent(""), Present("ColumnPanel"), Present("HtmlPanel")}}

Documents == {MkRoot(c, f) : c \in ContainerOptions, f \in ComponentLists}

(***************************************************************************)
(* The generator's specifications                                          *)
(***************************************************************************)
IdleText == scalar = RawScalar(<<>>) /\ text_pc = "idle"
IdleCard == /\ llc_value = MkNode(<<>>, Absent(""), Absent(<<>>), <<>>)
            /\ llc_parent = <<>> /\ llc_card = NoCard /\ llc_pc = "idle"
IdleGen == /\ parsed = MkRoot(Absent(MkContainer(Absent(""), Absent(<<>>))), <<>>)
           /\ form_name = <<>> /\ out_catalog = <<>> /\ class_string = NoText
           /\ gen_pc = "idle"
IdleUsers == /\ table_defined = FALSE /\ logged_in_users = <<>> /\ env_pid = 0
             /\ env_test = "" /\ last_call = [op |-> "none"]
IdleEvents == events = <<>> /\ trace = <<>> /\ last_event_call = [op |-> "none"]

\* validate_text(value)
ValidateText ==
    /\ text_pc = "call"
    /\ scalar' = validate_text(scalar)
    /\ text_pc' = IF scalar'.kind = "raise" THEN "raised" ELSE "returned"
    /\ UNCHANGED <<float_grammar, cardVars, genVars, userVars, eventVars>>

InitText ==
    /\ float_grammar \in {"strict", "lenient"}
    /\ scalar \in {RawScalar(t) : t \in ScalarTexts}
    /\ text_pc = "call"
    /\ IdleCard /\ IdleGen /\ IdleUsers /\ IdleEvents

SpecText == InitText /\ [][ValidateText]_vars

\* lowest_level_component(value, parent)
LowestLevelComponent ==
    /\ llc_pc = "call"
    /\ \E r \in {lowest_level_component(llc_value, llc_parent)} :
         /\ llc_card' = r.card
         /\ llc_pc' = IF r.ok THEN "returned" ELSE "raised"
    /\ UNCHANGED <<float_grammar, llc_value, llc_parent, textVars, genVars, userVars, eventVars>>

InitCard ==
    /\ float_grammar \in {"strict", "lenient"}
    /\ llc_value \in {MkNode(nm, ty, pr, <<>>) :
                        nm \in {N_label_1}, ty \in TypeOptions, pr \in RichPropertyOptions}
    /\ llc_parent \in FormNames
    /\ llc_card = NoCard
    /\ llc_pc = "call"
    /\ IdleText /\ IdleGen /\ IdleUsers /\ IdleEvents

SpecCard == InitCard /\ [][LowestLevelComponent]_vars

\* yaml2definition(parsed, form_name)
Yaml2Definition ==
    /\ gen_pc = "call"
    /\ \E r \in {yaml2definition(parsed, form_name)} :
         /\ out_catalog' = r.catalog
         /\ class_string' = r.text
         /\ gen_pc' = IF r.ok THEN "returned" ELSE "raised"
    /\ UNCHANGED <<float_grammar, parsed, form_name, textVars, cardVars, userVars, eventVars>>

Init ==
    /\ float_grammar = "lenient"
    /\ parsed \in Documents
    /\ form_name \in FormNames
    /\ out_catalog = <<>>
    /\ class_string = NoText
    /\ gen_pc = "call"
    /\ IdleText /\ IdleCard /\ IdleUsers /\ IdleEvents

Next == Yaml2Definition

Spec == Init /\ [][Next]_vars

(***************************************************************************)
(* anvil.users: the logged_in_users table and the calls on it              *)
(* A row is [user_ref, pid, pytest]; the table is the sequence of its rows *)
(* in id order, which is the order select() returns them in.               *)
(***************************************************************************)
Users == {"u", "v"}
Pids == {1, 2}
NO_TEST == "None"                  \* os.getenv returns None: the variable is unset
Tests == {"test_a (call)", "test_b (call)"}
TestEnv == Tests \cup {NO_TEST, ""}
NO_USER == "None"

Select(table, pid, test) == SelectSeq(table, LAMBDA row : row.pid = pid /\ row.pytest = test)
Delete(table, pid, test) == SelectSeq(table, LAMBDA row : ~(row.pid = pid /\ row.pytest = test))
DeleteUser(table, user) == SelectSeq(table, LAMBDA row : row.user_ref # user)

Call(op, user, raised, result) ==
    [op |-> op, user |-> user, raised |-> raised, result |-> result]

\* The table force_login leaves, given that it raises nothing.
force_login(table, user_row, pid, current_test) ==
    IF Len(Select(table, pid, current_test)) = 0
    THEN Append(table, [user_ref |-> user_row, pid |-> pid, pytest |-> current_test])
    ELSE table

\* get_user(): [raised, result].
get_user(table, pid, current_test) ==
    LET rows == Select(table, pid, current_test) IN
    IF current_test \in {NO_TEST, ""} THEN [raised |-> TRUE, result |-> NO_USER]
    ELSE IF Len(rows) = 1 THEN [raised |-> FALSE, result |-> rows[1].user_ref]
    ELSE IF Len(rows) = 0 THEN [raised |-> FALSE, result |-> NO_USER]
    ELSE [raised |-> TRUE, result |-> NO_USER]

ForceLogin(user_row) ==
    /\ IF env_test \in {NO_TEST, ""}
       THEN /\ logged_in_users' = logged_in_users
            /\ last_call' = Call("force_login", user_row, TRUE, NO_USER)
       ELSE /\ logged_in_users' = force_login(logged_in_users, user_row, env_pid, env_test)
            /\ last_call' = Call("force_login", user_row, FALSE, NO_USER)
    /\ table_defined' = TRUE
    /\ UNCHANGED <<env_pid, env_test, notUsers>>

Logout ==
    /\ IF table_defined
       THEN /\ logged_in_users' = Delete(logged_in_users, env_pid, env_test)
            /\ last_call' = Call("logout", NO_USER, FALSE, NO_USER)
       ELSE /\ logged_in_users' = logged_in_users
            /\ last_call' = Call("logout", NO_USER, TRUE, NO_USER)
    /\ UNCHANGED <<table_defined, env_pid, env_test, notUsers>>

LogoutUser(user) ==
    /\ IF table_defined
       THEN /\ logged_in_users' = DeleteUser(logged_in_users, user)
            /\ last_call' = Call("logout", user, FALSE, NO_USER)
       ELSE /\ logged_in_users' = logged_in_users
            /\ last_call' = Call("logout", user, TRUE, NO_USER)
    /\ UNCHANGED <<table_defined, env_pid, env_test, notUsers>>

GetUser ==
    /\ \E r \in {get_user(logged_in_users, env_pid, env_test)} :
         last_call' = Call("get_user", NO_USER, r.raised \/ ~table_defined,
                           IF table_defined THEN r.result ELSE NO_USER)
    /\ UNCHANGED <<table_defined, logged_in_users, env_pid, env_test, notUsers>>

\* The test runner moves on: another test, or another worker process.
SetEnv(pid, test) ==
    /\ <<pid, test>> # <<env_pid, env_test>>
    /\ env_pid' = pid
    /\ env_test' = test
    /\ last_call' = Call("setenv", NO_USER, FALSE, NO_USER)
    /\ UNCHANGED <<table_defined, logged_in_users, notUsers>>

InitUsers ==
    /\ table_defined \in BOOLEAN
    /\ logged_in_users = <<>>
    /\ env_pid \in Pids
    /\ env_test \in TestEnv
    /\ last_call = [op |-> "none", user |-> NO_USER, raised |-> FALSE, result |-> NO_USER]
    /\ float_grammar = "lenient"
    /\ IdleText /\ IdleCard /\ IdleGen /\ IdleEvents

NextUsers ==
    \/ \E u \in Users : ForceLogin(u)
    \/ Logout
    \/ \E u \in Users : LogoutUser(u)
    \/ GetUser
    \/ \E pid \in Pids, test \in TestEnv : SetEnv(pid, test)

SpecUsers == InitUsers /\ [][NextUsers]_vars

(***************************************************************************)
(* anvil.Component: the event-handler registry                             *)
(* _events maps the event names it holds to their handler lists.           *)
(***************************************************************************)
MaxHandlers == 2
EventNames == {"click", "show"}
NONE == "None"
HandlerFuncs == {"h1", "h2"}
HandlerArgs == HandlerFuncs \cup {NONE}

EventsGet(ev, event_name) == IF event_name \in DOMAIN ev THEN ev[event_name] ELSE <<>>
EventsPut(ev, event_name, list) ==
    [e \in DOMAIN ev \cup {event_name} |-> IF e = event_name THEN list ELSE ev[e]]
EventsPop(ev, event_name) == [e \in DOMAIN ev \ {event_name} |-> ev[e]]

RemoveFirst(list, x) ==
    LET k == CHOOSE i \in DOMAIN list : list[i] = x /\ \A j \in 1..(i-1) : list[j] # x
    IN  SubSeq(list, 1, k - 1) \o SubSeq(list, k + 1, Len(list))

EventCall(op, event_name, handler_func, raised, result) ==
    [op |-> op, event |-> event_name, handler |-> handler_func,
     raised |-> raised, result |-> result]

get_event_handlers(ev, event_name) == EventsGet(ev, event_name)

set_event_handler(ev, event_name, handler_func) ==
    EventsPut(ev, event_name, <<handler_func>>)

\* raise_event calls the handlers in order; calling None raises TypeError
\* and ends the loop.  [called, raised].
raise_event(ev, event_name) ==
    LET list == EventsGet(ev, event_name)
        bad == {i \in DOMAIN list : list[i] = NONE}
        stop == IF bad = {} THEN Len(list) + 1
                ELSE CHOOSE i \in bad : \A j \in bad : i <= j
    IN  [called |-> SubSeq(list, 1, stop - 1), raised |-> bad # {}]

AddEventHandler(event_name, handler_func) ==
    /\ Len(EventsGet(events, event_name)) < MaxHandlers
    /\ events' = EventsPut(events, event_name,
                           Append(EventsGet(events, event_name), handler_func))
    /\ trace' = <<>>
    /\ last_event_call' = EventCall("add_event_handler", event_name, handler_func, FALSE, <<>>)
    /\ UNCHANGED notEvents

GetEventHandlers(event_name) ==
    /\ last_event_call' = EventCall("get_event_handlers", event_name, NONE, FALSE,
                                    get_event_handlers(events, event_name))
    /\ trace' = <<>>
    /\ UNCHANGED <<events, notEvents>>

RaiseEvent(event_name) ==
    /\ \E r \in {raise_event(events, event_name)} :
         /\ trace' = r.called
         /\ last_event_call' = EventCall("raise_event", event_name, NONE, r.raised, <<>>)
    /\ UNCHANGED <<events, notEvents>>

RemoveEventHandler(event_name, handler_func) ==
    /\ trace' = <<>>
    /\ UNCHANGED notEvents
    /\ IF handler_func = NONE
       THEN /\ events' = EventsPop(events, event_name)
            /\ last_event_call' =
                   EventCall("remove_event_handler", event_name, handler_func, FALSE, <<>>)
       ELSE IF event_name \in DOMAIN events
               /\ \E i \in DOMAIN events[event_name] : events[event_name][i] = handler_func
       THEN /\ events' = [events EXCEPT ![event_name] = RemoveFirst(@, handler_func)]
            /\ last_event_call' =
                   EventCall("remove_event_handler", event_name, handler_func, FALSE, <<>>)
       ELSE /\ events' = events
            /\ last_event_call' =
                   EventCall("remove_event_handler", event_name, handler_func, TRUE, <<>>)

SetEventHandler(event_name, handler_func) ==
    /\ events' = set_event_handler(events, event_name, handler_func)
    /\ trace' = <<>>
    /\ last_event_call' = EventCall("set_event_handler", event_name, handler_func, FALSE, <<>>)
    /\ UNCHANGED notEvents

InitEvents ==
    /\ events = <<>>
    /\ trace = <<>>
    /\ last_event_call = EventCall("none", NONE, NONE, FALSE, <<>>)
    /\ float_grammar = "lenient"
    /\ IdleText /\ IdleCard /\ IdleGen /\ IdleUsers

NextEvents ==
    \/ \E e \in EventNames, h \in HandlerArgs : AddEventHandler(e, h)
    \/ \E e \in EventNames : GetEventHandlers(e)
    \/ \E e \in EventNames : RaiseEvent(e)
    \/ \E e \in EventNames, h \in HandlerArgs : RemoveEventHandler(e, h)
    \/ \E e \in EventNames, h \in HandlerArgs : SetEventHandler(e, h)

SpecEvents == InitEvents /\ [][NextEvents]_vars

(***************************************************************************)
(* Properties of the generator                                             *)
(***************************************************************************)
\* The components of a forest in post-order: each component after all the
\* components below it, siblings in document order.
RECURSIVE PostOrder(_)
PostOrder(forest) ==
    IF forest = <<>> THEN <<>>
    ELSE PostOrder(Head(forest).components) \o <<Head(forest)>> \o PostOrder(Tail(forest))

RECURSIVE Below(_)
Below(node) ==
    UNION {{node.components[i]} \cup Below(node.components[i]) : i \in DOMAIN node.components}

Components(doc) == Range(PostOrder(doc.components))

Names(seq) == [i \in DOMAIN seq |-> seq[i].name]

\* A sequence without the repetitions of an element that came before.
FirstOccurrences(seq) ==
    LET keep == {i \in DOMAIN seq : \A j \in 1..(i - 1) : seq[j] # seq[i]}
        Nth(n) == CHOOSE i \in keep : Cardinality({j \in keep : j < i}) = n - 1
    IN  [n \in 1..Cardinality(keep) |-> seq[Nth(n)]]

DistinctNames(doc, form) ==
    LET po == PostOrder(doc.components) IN
    /\ \A i, j \in DOMAIN po : po[i].name = po[j].name => i = j
    /\ \A i \in DOMAIN po : po[i].name # form

Position(catalog, key) == DictIndex(catalog, key)

\* C1 (as amended): the catalog holds each name once, at the place of the
\* first component processed under it, the components taken in post-order
\* and the form last; with pairwise distinct names that differ from the form
\* name its order is exactly the post-order of the document, the form last.
C1_FirstOccurrencePostOrder ==
    gen_pc = "returned" =>
        DictKeys(out_catalog) =
            FirstOccurrences(Names(PostOrder(parsed.components)) \o <<form_name>>)

\* C1 witness: container Main with children label_1 and, in a nested
\* container, label1 comes out in the order label_1, label1, Main, form.
C1_Witness ==
    /\ gen_pc = "returned"
    /\ Len(parsed.components) = 2
    /\ parsed.components[2].components # <<>>
    /\ DistinctNames(parsed, form_name)
    /\ DictKeys(out_catalog) = <<N_label_1, N_label1, N_Main, N_F1>>

\* C1 as stated: whatever the names, the entry of every component below a
\* container comes before the container's entry, and the form's entry
\* comes after the entries of all components.
C1_PostOrderForAnyNames ==
    gen_pc = "returned" =>
        /\ \A c \in Components(parsed) : \A d \in Below(c) :
              d.name # c.name =>
                  Position(out_catalog, d.name) < Position(out_catalog, c.name)
        /\ \A c \in Components(parsed) :
              c.name # form_name =>
                  Position(out_catalog, c.name) < Position(out_catalog, form_name)

\* The last component, in post-order, that bears a name.
LastNamed(doc, name) ==
    LET po == PostOrder(doc.components)
        k == CHOOSE i \in DOMAIN po :
                 po[i].name = name /\ \A j \in DOMAIN po : po[j].name = name => j <= i
    IN  po[k]

\* The names the emitter writes lines for, in the order it writes them.
EmittedKeys(doc, form) ==
    SelectSeq(FirstOccurrences(Names(PostOrder(doc.components))), LAMBDA n : n # form)

\* The identifiers the names of the documents are turned into, written out.
N_Label1 == <<"L","a","b","e","l","1">>
PrettyOf(name) ==
    CASE name = N_label_1 -> N_Label1
      [] name = N_label1  -> N_Label1
      [] name = N_Main    -> N_Main

\* The keyword block of a component of the documents, written out.
ExpectedBlock(node) ==
    IF Has(node, "properties")
    THEN <<KwargsLine("text", <<"'","H","i","'">>), KwargsLine("parent", CONTAINER_EXPR)>>
    ELSE <<>>

\* C3 (as amended): for every catalog entry but the form's, with key n and
\* type T, the declaration is bound to the camel-cased name and the
\* attribute line is `n = T(**CamelCased)`: for label_1 of type Label,
\* `Label1 = dict(` and `label_1 = Label(**Label1)`.
C3_DeclarationUsesCamelCase ==
    gen_pc = "returned" =>
        LET keys == EmittedKeys(parsed, form_name) IN
        /\ Len(class_string.default_string) = Len(keys)
        /\ Len(class_string.attr_string) = Len(keys)
        /\ \A i \in DOMAIN keys :
              /\ class_string.default_string[i].ident = PrettyOf(keys[i])
              /\ class_string.attr_string[i] =
                     AttrLine(keys[i], LastNamed(parsed, keys[i]).type, PrettyOf(keys[i]))

\* C3 witness: label_1 of type Label is emitted as Label1 = dict(...) and
\* label_1 = Label(**Label1).
C3_Witness ==
    /\ gen_pc = "returned"
    /\ DistinctNames(parsed, form_name)
    /\ \E i \in DOMAIN class_string.attr_string :
          /\ class_string.attr_string[i] = AttrLine(N_label_1, "Label", N_Label1)
          /\ class_string.default_string[i].ident = N_Label1

\* C3 as stated: the declaration of component n is bound to the raw name
\* n and its attribute line is `n = T(**n)`.
C3_DeclarationUsesRawName ==
    (gen_pc = "returned" /\ DistinctNames(parsed, form_name)) =>
        \A c \in Components(parsed) :
            \E i \in DOMAIN class_string.attr_string :
                /\ class_string.default_string[i].ident = c.name
                /\ class_string.attr_string[i] = AttrLine(c.name, c.type, c.name)

ExpectedClassName(form) ==
    CASE form = N_Main -> <<"M","a","i","n","T","e","m","p","l","a","t","e">>
      [] form = N_F1   -> <<"F","1","T","e","m","p","l","a","t","e">>

\* C4: the class is named <FormName>Template and its base type is the type
\* of the root's container mapping, whatever the components are named.
C4_ClassNameAndBase ==
    gen_pc = "returned" =>
        /\ class_string.class_name = ExpectedClassName(form_name)
        /\ class_string.base = parsed.container.type

\* C4 witness: a document with a component named like the form, of another
\* type than the container's.
C4_Witness ==
    /\ gen_pc = "returned"
    /\ class_string.base = "HtmlPanel"
    /\ \E c \in Components(parsed) : c.name = form_name /\ c.type = "Label"

EncloserName(doc, form, c) ==
    IF \E i \in DOMAIN doc.components : doc.components[i] = c
    THEN form
    ELSE (CHOOSE d \in Components(doc) :
              \E i \in DOMAIN d.components : d.components[i] = c).name

\* C7 as stated: the parent field of every entry names the component that
\* encloses the entry's component (documents with pairwise distinct names).
C7_ParentIsEncloser ==
    (gen_pc = "returned" /\ DistinctNames(parsed, form_name)) =>
        \A c \in Components(parsed) :
            DictGet(out_catalog, c.name).parent = EncloserName(parsed, form_name, c)

SharedNames(doc) ==
    LET po == PostOrder(doc.components) IN
    {po[i].name : i \in {k \in DOMAIN po : \E j \in DOMAIN po : j # k /\ po[j].name = po[k].name}}

EntriesUnder(catalog, key) == {i \in DOMAIN catalog : catalog[i].key = key}
LinesFor(text, key) == {i \in DOMAIN text.attr_string : text.attr_string[i].key = key}

\* C10 (as amended): components that share a name raise no error and leave
\* one entry under the name.  When the name is not the form name, the
\* entry has the type and block of the component processed last and the
\* text has one declaration and one attribute line for it; when the name
\* is the form name, the entry is the form's and the text has no line.
C10_LastDuplicateWins ==
    /\ (gen_pc # "call" /\ Has(parsed.container, "type")
          /\ \A c \in Components(parsed) : Has(c, "type")) => gen_pc = "returned"
    /\ gen_pc = "returned" =>
          \A n \in SharedNames(parsed) :
              /\ Cardinality(EntriesUnder(out_catalog, n)) = 1
              /\ n # form_name =>
                    /\ DictGet(out_catalog, n).of_type = LastNamed(parsed, n).type
                    /\ DictGet(out_catalog, n).as_string = ExpectedBlock(LastNamed(parsed, n))
                    /\ Cardinality(LinesFor(class_string, n)) = 1
                    /\ \A i \in LinesFor(class_string, n) :
                          class_string.default_string[i].block =
                              ExpectedBlock(LastNamed(parsed, n))
              /\ n = form_name =>
                    /\ DictGet(out_catalog, n).of_type = parsed.container.type
                    /\ LinesFor(class_string, n) = {}

\* C10 witness: two components named label_1, a Label with a text and then
\* a ColumnPanel without properties; the entry is the ColumnPanel's.
C10_Witness ==
    /\ gen_pc = "returned"
    /\ form_name = N_F1
    /\ Len(parsed.components) = 2
    /\ parsed.components[1].name = N_label_1
    /\ parsed.components[2].name = N_label_1
    /\ parsed.components[1].type = "Label"
    /\ Has(parsed.components[1], "properties")
    /\ parsed.components[2].type = "ColumnPanel"
    /\ DictGet(out_catalog, N_label_1).of_type = "ColumnPanel"
    /\ DictGet(out_catalog, N_label_1).as_string = <<>>
    /\ Len(class_string.attr_string) = 1

\* C10 as stated: for every shared name the one entry is that of the
\* component processed last, and the text has one declaration and one
\* attribute line for the name.
C10_OneLinePerSharedName ==
    gen_pc = "returned" =>
        \A n \in SharedNames(parsed) :
            /\ Cardinality(EntriesUnder(out_catalog, n)) = 1
            /\ DictGet(out_catalog, n).of_type = LastNamed(parsed, n).type
            /\ Cardinality(LinesFor(class_string, n)) = 1

(***************************************************************************)
(* Properties of the property block (lowest_level_component)               *)
(***************************************************************************)
PropertyCount(value) == IF Has(value, "properties") THEN Len(value.properties) ELSE 0
HasParentProperty(value) ==
    Has(value, "properties") /\ \E i \in DOMAIN value.properties : value.properties[i].key = "parent"
Quoted(text) == Len(text) >= 2 /\ text[1] = QUOTE /\ text[Len(text)] = QUOTE
\* The texts the retyping rule leaves or makes a string.
IsStringText(t) ==
    /\ t \notin {T_true, T_false, T_null}
    /\ t = <<>> \/ \E i \in DOMAIN t : t[i] \notin DIGITS \cup {"."}
BlockLines(block, key) == {i \in DOMAIN block : block[i].key = key}

\* C2 (as amended): with no property the block is empty (no parent line);
\* with N >= 1 properties it has one line per property and the parent
\* line, N+1 lines, or N lines when a property is itself named parent (the
\* synthetic line takes its place); a value that is not parent's is quoted
\* if and only if its normalized type is string.
C2_BlockLines ==
    llc_pc = "returned" =>
        LET block == llc_card.as_string
            N == PropertyCount(llc_value)
        IN  /\ Len(block) = IF N = 0 THEN 0
                            ELSE IF HasParentProperty(llc_value) THEN N ELSE N + 1
            /\ N > 0 => \E i \in DOMAIN block :
                            /\ BlockLines(block, "parent") = {i}
                            /\ block[i].value = CONTAINER_EXPR
            /\ \A p \in DOMAIN llc_value.properties :
                  llc_value.properties[p].key # "parent" =>
                      \E i \in DOMAIN block :
                          /\ BlockLines(block, llc_value.properties[p].key) = {i}
                          /\ Quoted(block[i].value)
                                <=> IsStringText(llc_value.properties[p].item.text)

\* C2 witness: two properties, a string and a boolean, give three lines.
C2_Witness ==
    /\ llc_pc = "returned"
    /\ PropertyCount(llc_value) = 2
    /\ llc_card.as_string = <<KwargsLine("text", <<"'","H","i","'">>),
                              KwargsLine("visible", PY_True),
                              KwargsLine("parent", CONTAINER_EXPR)>>

\* C2 as stated: N properties give N+1 lines for every N >= 0, and with
\* N = 0 the block is the parent line alone.
C2_AlwaysParentLine ==
    llc_pc = "returned" =>
        /\ Len(llc_card.as_string) = PropertyCount(llc_value) + 1
        /\ PropertyCount(llc_value) = 0 =>
              llc_card.as_string = <<KwargsLine("parent", CONTAINER_EXPR)>>

(***************************************************************************)
(* Properties of the scalar normalizer                                     *)
(***************************************************************************)
AllDigitsOrDots(t) == \A i \in DOMAIN t : t[i] \in DIGITS \cup {"."}
Dots(t) == {i \in DOMAIN t : t[i] = "."}
\* Digits around at most one dot that is neither first nor last.
PlainDecimal(t) ==
    /\ t # <<>> /\ AllDigitsOrDots(t)
    /\ Cardinality(Dots(t)) <= 1
    /\ \A i \in Dots(t) : 1 < i /\ i < Len(t)

\* C6 (as amended): true/false become boolean, null becomes null, the
\* empty text stays a string, every other text with a character that is
\* neither digit nor dot stays a string, unchanged.  A non-empty text of
\* digits and dots is revalidated as a float: it becomes numeric when it is
\* a decimal literal, and the revalidation raises inside the normalizer
\* when it has more than one dot or no digit (".", "...", "1.2.3").
C6_Classification ==
    text_pc # "call" =>
        LET t == scalar.text IN
        /\ t \in {T_true, T_false} => scalar.kind = "bool" /\ text_pc = "returned"
        /\ t = T_null => scalar.kind = "null" /\ text_pc = "returned"
        /\ t = <<>> => scalar.kind = "str" /\ text_pc = "returned"
        /\ (t # <<>> /\ AllDigitsOrDots(t)) =>
              /\ scalar.kind \in {"float", "raise"}
              /\ PlainDecimal(t) => scalar.kind = "float" /\ text_pc = "returned"
              /\ (Cardinality(Dots(t)) > 1 \/ Dots(t) = DOMAIN t) =>
                    scalar.kind = "raise" /\ text_pc = "raised"
        /\ (t \notin {T_true, T_false, T_null} /\ ~AllDigitsOrDots(t)) =>
              scalar.kind = "str" /\ text_pc = "returned"

\* C6 witness: the text "1.2.3" takes the numeric branch and the
\* revalidation raises.
C6_Witness ==
    /\ scalar.text = <<"1",".","2",".","3">>
    /\ scalar.kind = "raise"
    /\ text_pc = "raised"

\* C6 as stated: every non-empty text of digits and dots is classified
\* numeric and the normalizer does not fail on it.
C6_DigitsAndDotsNeverFail ==
    text_pc # "call" =>
        LET t == scalar.text IN
        /\ t \in {T_true, T_false} => scalar.kind = "bool"
        /\ t = T_null => scalar.kind = "null"
        /\ t = <<>> => scalar.kind = "str"
        /\ (t # <<>> /\ AllDigitsOrDots(t)) => scalar.kind = "float" /\ text_pc = "returned"
        /\ (t \notin {T_true, T_false, T_null} /\ ~AllDigitsOrDots(t)) => scalar.kind = "str"

(***************************************************************************)
(* Properties of anvil.users and anvil.Component                           *)
(***************************************************************************)
\* C8 as stated: once force_login(u) has returned, get_user() in the same
\* process and test returns u.
C8_ForceLoginSetsUser ==
    (last_call.op = "force_login" /\ ~last_call.raised) =>
        get_user(logged_in_users, env_pid, env_test) =
            [raised |-> FALSE, result |-> last_call.user]

\* C9 as stated: after set_event_handler(e, h) the handlers of e are [h],
\* and after set_event_handler(e, None) e has no handlers, so that
\* raise_event(e) calls nothing and does not fail.
C9_SetReplacesAndNoneClears ==
    last_event_call.op = "set_event_handler" =>
        IF last_event_call.handler # NONE
        THEN get_event_handlers(events, last_event_call.event) = <<last_event_call.handler>>
        ELSE /\ get_event_handlers(events, last_event_call.event) = <<>>
             /\ raise_event(events, last_event_call.event) = [called |-> <<>>, raised |-> FALSE]

(***************************************************************************)
(* The identifiers of the declarations                                     *)
(***************************************************************************)
\* The block an identifier is bound to once the declarations of the text
\* have run one after the other: that of the last declaration binding it.
BoundBlock(text, ident) ==
    LET decls == text.default_string
        k == CHOOSE i \in DOMAIN decls :
                 decls[i].ident = ident /\ \A j \in DOMAIN decls : decls[j].ident = ident => j <= i
    IN  decls[k].block

\* C11: two catalog entries with different raw names get different
\* default-value identifiers, so no declaration rebinds the identifier of
\* another component's declaration, and the identifier every attribute line
\* `key = T(**Pretty)` names is bound to the property block of the line's
\* own component.
C11_IdentifiersDistinct ==
    gen_pc = "returned" =>
        LET decls == class_string.default_string
            attrs == class_string.attr_string
        IN  /\ \A i, j \in DOMAIN attrs :
                  attrs[i].key # attrs[j].key => decls[i].ident # decls[j].ident
            /\ \A i \in DOMAIN attrs :
                  BoundBlock(class_string, attrs[i].arg) = decls[i].block

====
